---- MODULE Spec2Model ----
(***************************************************************************)
(* A model of spgill.backup's command line front end                       *)
(* (src/spgill/backup/__init__.py): one invocation of the click group      *)
(* `cli` followed by one of the subcommands run, dump, decrypt, list.      *)
(* External programs (restic, pv, zstd, openssl) are black boxes: what     *)
(* they print and the exit codes they return are chosen nondeterministic-  *)
(* ally; what the front end does with them is translated from the source.  *)
(***************************************************************************)
EXTENDS Naturals, Sequences, FiniteSets

VARIABLES
    cmd,          \* the subcommand named on the command line
    profiles,     \* names of the profiles the config defines
    profile,      \* PROFILE argument
    go,           \* run's --go flag
    dumpCfg,      \* config's "dump" object: [present, cache, pw]
    dirs,         \* directories that exist on disk
    snapshots,    \* dump's SNAPSHOTS arguments
    ttyOut,       \* decrypt: file_output has isatty and it answers true
    pc,           \* position of the interpreter
    idx,          \* dump: index of the snapshot being processed
    latest,       \* dump: `latest`, the snapshot record of this iteration
    latestSize,   \* dump: `latestSize`
    cacheFree,    \* dump: dumpCacheUsage.free
    destFree,     \* dump: dumpDestUsage.free
    snapsOut,     \* dump: the JSON document in snapsCommand.stdout
    dumpExit,     \* dump: dumpCommand.exit_code
    copyExit,     \* dump: copyCommand.exit_code
    files,        \* the archive files on disk: path -> content
    procs,        \* every subprocess started so far, in start order
    out,          \* messages printed through the presentation layer
    stdout,       \* characters written with print()
    engineArgs,   \* run: the argument list handed to the engine
    reported,     \* dump: paths announced in a "Success!" line
    status        \* "running", or how the process ended: "ok", "fatal", "crash"

vars == <<cmd, profiles, profile, go, dumpCfg, dirs, snapshots, ttyOut, pc, idx,
          latest, latestSize, cacheFree, destFree, snapsOut, dumpExit, copyExit,
          files, procs, out, stdout, engineArgs, reported, status>>

inputs == <<cmd, profiles, profile, go, dumpCfg, dirs, snapshots, ttyOut>>
locals == <<latest, latestSize, cacheFree, destFree, snapsOut, dumpExit, copyExit>>

(***************************************************************************)
(* Bounds of the model.                                                    *)
(***************************************************************************)
MaxSnapshots == 2   \* longest SNAPSHOTS argument list
MaxSize == 2        \* largest byte count a size or free-space query reports

(***************************************************************************)
(* Strings whose characters matter are sequences of one-character strings. *)
(***************************************************************************)
Concat(ss) ==
    LET RECURSIVE cat(_)
        cat(i) == IF i > Len(ss) THEN <<>> ELSE ss[i] \o cat(i + 1)
    IN cat(1)

\* Python's `needle in hay` on bytes
Contains(hay, needle) ==
    \E i \in 1..(Len(hay) + 1) :
        /\ i + Len(needle) - 1 <= Len(hay)
        /\ SubSeq(hay, i, i + Len(needle) - 1) = needle

(***************************************************************************)
(* The configuration: two profiles a config may define.                    *)
(***************************************************************************)
ProfileNames == {"p1", "p2"}

ProfileData(p) ==
    IF p = "p1"
    THEN [repo    |-> <<"/", "m", "/", "r">>,
          include |-> << <<"/", "h">> >>,
          exclude |-> << <<"a", " ", "b">> >>,
          tags    |-> << <<"t">> >>,
          args    |-> <<>>,
          groups  |-> << [include |-> << <<"/", "g">> >>,
                          exclude |-> << <<"i", "'", "s">> >>] >>]
    ELSE [repo    |-> <<"s", "3", ":", "b", "/", "q">>,
          include |-> << <<"/", "w">> >>,
          exclude |-> <<>>,
          tags    |-> <<>>,
          args    |-> << <<"-", "v">> >>,
          groups  |-> <<>>]

\* helper.getBaseResticsArgs: the repository address (no global cache directory
\* is configured in the modelled config)
GetBaseResticsArgs(p) ==
    << <<"-", "-", "r", "e", "p", "o">>, ProfileData(p).repo >>

\* [["--flag", x] for x in xs], chained
Flagged(flag, xs) ==
    LET RECURSIVE f(_)
        f(i) == IF i > Len(xs) THEN <<>> ELSE <<flag, xs[i]>> \o f(i + 1)
    IN f(1)

\* the include (or exclude) list after every group's list was appended to it
Merged(p, key) ==
    LET d == ProfileData(p)
        RECURSIVE g(_)
        g(i) == IF i > Len(d.groups) THEN <<>> ELSE d.groups[i][key] \o g(i + 1)
    IN d[key] \o g(1)

\* the restic argument list cli_run constructs
RunArgs(p) ==
    GetBaseResticsArgs(p)
    \o << <<"b", "a", "c", "k", "u", "p">> >>
    \o Flagged(<<"-", "-", "t", "a", "g">>, ProfileData(p).tags)
    \o Flagged(<<"-", "-", "e", "x", "c", "l", "u", "d", "e">>, Merged(p, "exclude"))
    \o Merged(p, "include")
    \o ProfileData(p).args

\* characters shlex.quote leaves alone: [\w@%+=:,./-]
SafeChars ==
    {"a", "b", "c", "d", "e", "f", "g", "h", "i", "j", "k", "l", "m", "n", "o",
     "p", "q", "r", "s", "t", "u", "v", "w", "x", "y", "z",
     "0", "1", "2", "3", "4", "5", "6", "7", "8", "9",
     "_", "@", "%", "+", "=", ":", ",", ".", "/", "-"}

ShlexQuote(s) ==
    LET RECURSIVE esc(_)
        esc(i) == IF i > Len(s) THEN <<>>
                  ELSE (IF s[i] = "'" THEN <<"'", "\"", "'", "\"", "'">> ELSE <<s[i]>>)
                       \o esc(i + 1)
    IN IF s = <<>> THEN <<"'", "'">>
       ELSE IF \A i \in 1..Len(s) : s[i] \in SafeChars THEN s
       ELSE <<"'">> \o esc(1) \o <<"'">>

ShlexJoin(args) ==
    LET RECURSIVE j(_)
        j(i) == IF i > Len(args) THEN <<>>
                ELSE (IF i > 1 THEN <<" ">> ELSE <<>>) \o ShlexQuote(args[i]) \o j(i + 1)
    IN j(1)

(***************************************************************************)
(* The engine's snapshots and the JSON text of a snapshot query.           *)
(***************************************************************************)
S1 == [id |-> <<"a", "1", "f">>, short_id |-> <<"a", "1">>,
       time |-> <<"1", "T", "2", ".", "5">>, hostname |-> <<"p", "c">>]
S2 == [id |-> <<"b", "2", "e">>, short_id |-> <<"b", "2">>,
       time |-> <<"3", "T", "4", ".", "5">>, hostname |-> <<"p", "c">>]
\* a snapshot taken on a host whose name holds the letters n, u, l, l
S3 == [id |-> <<"b", "2", "e">>, short_id |-> <<"b", "2">>,
       time |-> <<"3", "T", "4", ".", "5">>, hostname |-> <<"n", "u", "l", "l">>]
NoSnapshot == [id |-> <<>>, short_id |-> <<>>, time |-> <<>>, hostname |-> <<>>]

\* what `restic snapshots NAME --json` may answer: JSON null (older engines, no
\* match), an empty list (newer engines, no match), or a list of one snapshot
JsonList(l) == [null |-> FALSE, list |-> l]
JsonNull == [null |-> TRUE, list |-> <<>>]
Responses == {JsonNull, JsonList(<<>>), JsonList(<<S1>>), JsonList(<<S2>>), JsonList(<<S3>>)}

JsonString(s) == <<"\"">> \o s \o <<"\"">>

JsonSnapshot(s) ==
    <<"{">> \o JsonString(<<"t", "i", "m", "e">>) \o <<":">> \o JsonString(s.time)
    \o <<",">> \o JsonString(<<"h", "o", "s", "t", "n", "a", "m", "e">>) \o <<":">>
    \o JsonString(s.hostname)
    \o <<",">> \o JsonString(<<"i", "d">>) \o <<":">> \o JsonString(s.id)
    \o <<",">> \o JsonString(<<"s", "h", "o", "r", "t", "_", "i", "d">>) \o <<":">>
    \o JsonString(s.short_id) \o <<"}">>

\* snapsCommand.stdout
StdoutBytes(resp) ==
    IF resp.null THEN <<"n", "u", "l", "l">>
    ELSE <<"[">>
         \o Concat([i \in 1..Len(resp.list) |-> JsonSnapshot(resp.list[i])])
         \o <<"]">>

(***************************************************************************)
(* Archive file names and paths.                                           *)
(***************************************************************************)
\* pathlib.Path(s).name: what follows the last "/"
Basename(s) ==
    LET slashes == {i \in 1..Len(s) : s[i] = "/"}
        last == IF slashes = {} THEN 0
                ELSE CHOOSE i \in slashes : \A k \in slashes : k <= i
    IN SubSeq(s, last + 1, Len(s))

Digits == {"0", "1", "2", "3", "4", "5", "6", "7", "8", "9"}

\* latest["time"] parsed and printed with %Y%m%d%H%M%S: the digits down to the
\* second, the fraction dropped
Timestamp(t) ==
    LET dots == {i \in 1..Len(t) : t[i] = "."}
        cut == IF dots = {} THEN Len(t) + 1
               ELSE CHOOSE i \in dots : \A k \in dots : i <= k
    IN SelectSeq(SubSeq(t, 1, cut - 1), LAMBDA c : c \in Digits)

\* f"{repoDirName}_{timestamp}_{latest['short_id']}.tar.zst.aes"
Filename(p, snap) ==
    Basename(ProfileData(p).repo) \o <<"_">> \o Timestamp(snap.time) \o <<"_">>
    \o snap.short_id \o <<".", "t", "a", "r", ".", "z", "s", "t", ".", "a", "e", "s">>

Dirs == {"d1", "d2"}
Destination == "d1"                     \* the DESTINATION argument
Path(dir, name) == <<dir, name>>
Names(p) == {Filename(p, s) : s \in {S1, S2, S3}}
Paths(p) == {Path(d, n) : d \in Dirs, n \in Names(p)}

\* dump's directories and files (lines 168-182, 220, 223)
CacheEnabled == dumpCfg.cache # "none"
DumpDestDir == Destination
DumpCacheDir == IF CacheEnabled THEN dumpCfg.cache ELSE DumpDestDir
DumpCacheFile == Path(DumpCacheDir, Filename(profile, latest))
DumpDestFile == Path(DumpDestDir, Filename(profile, latest))

(***************************************************************************)
(* The invocation: what the command line, the config and the disk hold.    *)
(***************************************************************************)
Cmds == {"run", "dump", "decrypt", "list"}
SnapshotNames == {"latest", "a1"}
SnapshotLists == UNION {[1..n -> SnapshotNames] : n \in 0..MaxSnapshots}
NoDumpCfg == [present |-> FALSE, cache |-> "none", pw |-> FALSE]
DumpCfgs ==
    {NoDumpCfg} \cup [present : {TRUE}, cache : {"none"} \cup Dirs, pw : BOOLEAN]

Proc(c, i, in, o) == [cmd |-> c, snap |-> i, in |-> in, out |-> o]

Init ==
    /\ cmd \in Cmds
    /\ profiles \in SUBSET ProfileNames
    /\ profile \in (IF cmd \in {"run", "dump"} THEN ProfileNames ELSE {"p1"})
    /\ go \in (IF cmd = "run" THEN BOOLEAN ELSE {FALSE})
    /\ dumpCfg \in (IF cmd = "dump" THEN DumpCfgs ELSE {NoDumpCfg})
    /\ dirs \in (IF cmd = "dump" THEN SUBSET Dirs ELSE {Dirs})
    /\ snapshots \in (IF cmd = "dump" THEN SnapshotLists ELSE {<<>>})
    /\ ttyOut \in (IF cmd = "decrypt" THEN BOOLEAN ELSE {FALSE})
    /\ files \in (IF cmd = "dump"
                  THEN {f \in [Paths(profile) -> {"absent", "old"}] :
                          \A q \in Paths(profile) : q[1] \notin dirs => f[q] = "absent"}
                  ELSE {[q \in Paths(profile) |-> "absent"]})
    /\ pc = "cli"
    /\ idx = 0
    /\ latest = NoSnapshot
    /\ latestSize = 0
    /\ cacheFree = 0
    /\ destFree = 0
    /\ snapsOut = JsonNull
    /\ dumpExit = 0
    /\ copyExit = 0
    /\ procs = <<>>
    /\ out = <<>>
    /\ stdout = <<>>
    /\ engineArgs = <<>>
    /\ reported = {}
    /\ status = "running"

(***************************************************************************)
(* The presentation layer and the interpreter.                             *)
(***************************************************************************)
\* helper.printError: print the line, then end the process with a non-zero status
PrintError(msg) ==
    /\ out' = Append(out, msg)
    /\ pc' = "exit"
    /\ status' = "fatal"

\* an exception nothing catches: traceback, non-zero status
Raise ==
    /\ pc' = "exit"
    /\ status' = "crash"
    /\ UNCHANGED out

\* helper.getProfileData: fatal "profile not found" when the name is not defined
ProfileMissing == profile \notin profiles

\* the command function returns
Return ==
    /\ pc' = "exit"
    /\ status' = "ok"

(***************************************************************************)
(* The entry point and the subcommands run, decrypt, list.                 *)
(***************************************************************************)
\* cli, had the "no profiles" message been a warning that lets the subcommand run
cli_WarnOnly ==
    /\ pc = "cli"
    /\ IF profiles = {}
       THEN /\ out' = Append(out, "No profiles defined in config")
            /\ pc' = cmd
            /\ UNCHANGED status
       ELSE pc' = cmd /\ UNCHANGED <<out, status>>
    /\ UNCHANGED <<inputs, idx, locals, files, procs, stdout, engineArgs, reported>>

cli ==
    /\ pc = "cli"
    /\ IF profiles = {}
       THEN PrintError("No profiles defined in config")
       ELSE pc' = cmd /\ UNCHANGED <<out, status>>
    /\ UNCHANGED <<inputs, idx, locals, files, procs, stdout, engineArgs, reported>>

\* cli_run, had the engine been started without looking at --go
cli_run_AlwaysExecutes ==
    /\ pc = "run"
    /\ IF ProfileMissing
       THEN /\ PrintError("No profile defined in config")
            /\ UNCHANGED <<procs, stdout, engineArgs>>
       ELSE IF TRUE
       THEN /\ engineArgs' = RunArgs(profile)
            /\ procs' = Append(procs, Proc("restic backup", 0, "tty", "tty"))
            /\ \E code \in {0, 1} : status' = IF code = 0 THEN "ok" ELSE "engine failed"
            /\ pc' = "exit"
            /\ UNCHANGED <<out, stdout>>
       ELSE /\ stdout' = ShlexJoin(RunArgs(profile))
            /\ out' = Append(out, "Warning: Running in dry-run mode")
            /\ pc' = "exit"
            /\ status' = "ok"
            /\ UNCHANGED <<procs, engineArgs>>
    /\ UNCHANGED <<inputs, idx, locals, files, reported>>

cli_run ==
    /\ pc = "run"
    /\ IF ProfileMissing
       THEN /\ PrintError("No profile defined in config")
            /\ UNCHANGED <<procs, stdout, engineArgs>>
       ELSE IF go
       THEN /\ engineArgs' = RunArgs(profile)
            /\ procs' = Append(procs, Proc("restic backup", 0, "tty", "tty"))
            /\ \E code \in {0, 1} : status' = IF code = 0 THEN "ok" ELSE "engine failed"
            /\ pc' = "exit"
            /\ UNCHANGED <<out, stdout>>
       ELSE /\ stdout' = ShlexJoin(RunArgs(profile))
            /\ out' = Append(out, "Warning: Running in dry-run mode")
            /\ pc' = "exit"
            /\ status' = "ok"
            /\ UNCHANGED <<procs, engineArgs>>
    /\ UNCHANGED <<inputs, idx, locals, files, reported>>

\* cli_decrypt, had the terminal guard printed its message and gone on
cli_decrypt_GuardNotFatal ==
    /\ pc = "decrypt"
    /\ IF FALSE
       THEN PrintError("Stdout is a TTY") /\ UNCHANGED procs
       ELSE /\ procs' = procs \o << Proc("openssl -d", 0, "file_input", "pipe"),
                                    Proc("zstd -dc", 0, "pipe", "file_output") >>
            /\ Return
            /\ out' = IF ttyOut THEN Append(out, "Stdout is a TTY") ELSE out
    /\ UNCHANGED <<inputs, idx, locals, files, stdout, engineArgs, reported>>

cli_decrypt ==
    /\ pc = "decrypt"
    /\ IF ttyOut
       THEN PrintError("Stdout is a TTY") /\ UNCHANGED procs
       ELSE /\ procs' = procs \o << Proc("openssl -d", 0, "file_input", "pipe"),
                                    Proc("zstd -dc", 0, "pipe", "file_output") >>
            /\ Return
            /\ UNCHANGED out
    /\ UNCHANGED <<inputs, idx, locals, files, stdout, engineArgs, reported>>

cli_list ==
    /\ pc = "list"
    /\ out' = out \o SelectSeq(<<"p1", "p2">>, LAMBDA n : n \in profiles)
    /\ Return
    /\ UNCHANGED <<inputs, idx, locals, files, procs, stdout, engineArgs, reported>>

(***************************************************************************)
(* dump: the checks before the loop, then one action per step of the loop  *)
(* body. Every subprocess the loop starts is appended to procs with the    *)
(* index of the snapshot it was started for.                               *)
(***************************************************************************)
config == <<cmd, profiles, profile, go, dumpCfg, dirs, ttyOut>>

cli_dump ==
    /\ pc = "dump"
    /\ IF profile \notin profiles
       THEN PrintError("No profile defined in config") /\ UNCHANGED <<idx, snapshots>>
       ELSE IF ~dumpCfg.present
       THEN PrintError("No dump options defined in config") /\ UNCHANGED <<idx, snapshots>>
       ELSE IF DumpDestDir \notin dirs
       THEN PrintError("Destination directory does not exist") /\ UNCHANGED <<idx, snapshots>>
       ELSE IF ~dumpCfg.pw
       THEN Raise /\ UNCHANGED <<idx, snapshots>>
       ELSE /\ snapshots' = IF Len(snapshots) = 0 THEN <<"latest">> ELSE snapshots
            /\ idx' = 1
            /\ pc' = "query"
            /\ UNCHANGED <<out, status>>
    /\ UNCHANGED <<config, locals, files, procs, stdout, engineArgs, reported>>

DumpQuery ==
    /\ pc = "query"
    /\ procs' = Append(procs, Proc("restic snapshots", idx, "none", "capture"))
    /\ \E resp \in Responses :
         /\ snapsOut' = resp
         /\ IF Contains(StdoutBytes(resp), <<"n", "u", "l", "l">>)
            THEN PrintError("Could not find snapshot") /\ UNCHANGED latest
            ELSE IF Len(resp.list) = 0
            THEN Raise /\ UNCHANGED latest
            ELSE /\ latest' = resp.list[1]
                 /\ pc' = "collision"
                 /\ UNCHANGED <<out, status>>
    /\ UNCHANGED <<config, snapshots, idx, latestSize, cacheFree, destFree, dumpExit,
                   copyExit, files, stdout, engineArgs, reported>>

\* DumpCollision, had the destination path not been checked
DumpCollision_NoDestCheck ==
    /\ pc = "collision"
    /\ IF files[DumpCacheFile] # "absent"
       THEN PrintError("Archive already exists")
       ELSE IF FALSE
       THEN PrintError("Final archive already exists")
       ELSE pc' = "stats" /\ UNCHANGED <<out, status>>
    /\ UNCHANGED <<config, snapshots, idx, locals, files, procs, stdout, engineArgs,
                   reported>>

\* DumpCollision, had the cache path not been checked
DumpCollision_NoCacheCheck ==
    /\ pc = "collision"
    /\ IF FALSE
       THEN PrintError("Archive already exists")
       ELSE IF files[DumpDestFile] # "absent"
       THEN PrintError("Final archive already exists")
       ELSE pc' = "stats" /\ UNCHANGED <<out, status>>
    /\ UNCHANGED <<config, snapshots, idx, locals, files, procs, stdout, engineArgs,
                   reported>>

DumpCollision ==
    /\ pc = "collision"
    /\ IF files[DumpCacheFile] # "absent"
       THEN PrintError("Archive already exists")
       ELSE IF files[DumpDestFile] # "absent"
       THEN PrintError("Final archive already exists")
       ELSE pc' = "stats" /\ UNCHANGED <<out, status>>
    /\ UNCHANGED <<config, snapshots, idx, locals, files, procs, stdout, engineArgs,
                   reported>>

DumpStats ==
    /\ pc = "stats"
    /\ procs' = Append(procs, Proc("restic stats", idx, "none", "capture"))
    /\ \E size \in 0..MaxSize : latestSize' = size
    /\ pc' = "space"
    /\ UNCHANGED <<config, snapshots, idx, latest, cacheFree, destFree, snapsOut,
                   dumpExit, copyExit, files, out, stdout, engineArgs, reported,
                   status>>

\* DumpSpace, had only the cache directory's free space been compared
DumpSpace_CacheOnly ==
    /\ pc = "space"
    /\ IF DumpCacheDir \notin dirs
       THEN Raise /\ UNCHANGED <<cacheFree, destFree>>
       ELSE \E cf \in 0..MaxSize, df \in 0..MaxSize :
              /\ cacheFree' = cf
              /\ IF cf < latestSize
                 THEN PrintError("Dump archive needs more space in directory")
                      /\ UNCHANGED destFree
                 ELSE /\ destFree' = df
                      /\ IF FALSE
                         THEN PrintError("Dump archive needs more space in destination")
                         ELSE pc' = "pipe" /\ UNCHANGED <<out, status>>
    /\ UNCHANGED <<config, snapshots, idx, latest, latestSize, snapsOut, dumpExit,
                   copyExit, files, procs, stdout, engineArgs, reported>>

DumpSpace ==
    /\ pc = "space"
    /\ IF DumpCacheDir \notin dirs
       THEN Raise /\ UNCHANGED <<cacheFree, destFree>>
       ELSE \E cf \in 0..MaxSize, df \in 0..MaxSize :
              /\ cacheFree' = cf
              /\ IF cf < latestSize
                 THEN PrintError("Dump archive needs more space in directory")
                      /\ UNCHANGED destFree
                 ELSE /\ destFree' = df
                      /\ IF df < latestSize
                         THEN PrintError("Dump archive needs more space in destination")
                         ELSE pc' = "pipe" /\ UNCHANGED <<out, status>>
    /\ UNCHANGED <<config, snapshots, idx, latest, latestSize, snapsOut, dumpExit,
                   copyExit, files, procs, stdout, engineArgs, reported>>

\* DumpPipe, had a non-zero exit code of the pipe not ended the invocation
DumpPipe_ContinueOnError ==
    /\ pc = "pipe"
    /\ procs' = procs \o << Proc("restic dump", idx, "none", "pipe"),
                            Proc("pv", idx, "pipe", "pipe"),
                            Proc("zstd -c", idx, "pipe", "pipe"),
                            Proc("openssl -e", idx, "pipe", "dumpCacheFile") >>
    /\ \E code \in {0, 1} :
         /\ dumpExit' = code
         /\ files' = [files EXCEPT ![DumpCacheFile] = IF code = 0 THEN "full" ELSE "partial"]
         /\ IF FALSE
            THEN PrintError("Dump command returned with error code")
            ELSE /\ pc' = IF CacheEnabled THEN "relocate" ELSE "success"
                 /\ UNCHANGED <<out, status>>
    /\ UNCHANGED <<config, snapshots, idx, latest, latestSize, cacheFree, destFree,
                   snapsOut, copyExit, stdout, engineArgs, reported>>

DumpPipe ==
    /\ pc = "pipe"
    /\ procs' = procs \o << Proc("restic dump", idx, "none", "pipe"),
                            Proc("pv", idx, "pipe", "pipe"),
                            Proc("zstd -c", idx, "pipe", "pipe"),
                            Proc("openssl -e", idx, "pipe", "dumpCacheFile") >>
    /\ \E code \in {0, 1} :
         /\ dumpExit' = code
         /\ files' = [files EXCEPT ![DumpCacheFile] = IF code = 0 THEN "full" ELSE "partial"]
         /\ IF code # 0
            THEN PrintError("Dump command returned with error code")
            ELSE /\ pc' = IF CacheEnabled THEN "relocate" ELSE "success"
                 /\ UNCHANGED <<out, status>>
    /\ UNCHANGED <<config, snapshots, idx, latest, latestSize, cacheFree, destFree,
                   snapsOut, copyExit, stdout, engineArgs, reported>>

\* DumpRelocate, had the cached file been unlinked before the exit code was looked at
DumpRelocate_UnlinkFirst ==
    /\ pc = "relocate"
    /\ procs' = Append(procs, Proc("pv copy", idx, "dumpCacheFile", "dumpDestFile"))
    /\ \E code \in {0, 1} :
         LET opened == [files EXCEPT ![DumpDestFile] = "empty"]
             source == opened[DumpCacheFile]
             copied == [opened EXCEPT ![DumpDestFile] =
                          IF code = 0 \/ source = "empty" THEN source ELSE "partial"]
         IN /\ copyExit' = code
            /\ IF code # 0
               THEN /\ files' = [copied EXCEPT ![DumpCacheFile] = "absent"]
                    /\ PrintError("Copy command returned with error code")
               ELSE /\ files' = [copied EXCEPT ![DumpCacheFile] = "absent"]
                    /\ pc' = "success"
                    /\ UNCHANGED <<out, status>>
    /\ UNCHANGED <<config, snapshots, idx, latest, latestSize, cacheFree, destFree,
                   snapsOut, dumpExit, stdout, engineArgs, reported>>

\* the copy opens dumpDestFile for writing (created or truncated), pv reads
\* dumpCacheFile into it, and the cached file is unlinked after exit code 0
DumpRelocate ==
    /\ pc = "relocate"
    /\ procs' = Append(procs, Proc("pv copy", idx, "dumpCacheFile", "dumpDestFile"))
    /\ \E code \in {0, 1} :
         LET opened == [files EXCEPT ![DumpDestFile] = "empty"]
             source == opened[DumpCacheFile]
             copied == [opened EXCEPT ![DumpDestFile] =
                          IF code = 0 \/ source = "empty" THEN source ELSE "partial"]
         IN /\ copyExit' = code
            /\ IF code # 0
               THEN /\ files' = copied
                    /\ PrintError("Copy command returned with error code")
               ELSE /\ files' = [copied EXCEPT ![DumpCacheFile] = "absent"]
                    /\ pc' = "success"
                    /\ UNCHANGED <<out, status>>
    /\ UNCHANGED <<config, snapshots, idx, latest, latestSize, cacheFree, destFree,
                   snapsOut, dumpExit, stdout, engineArgs, reported>>

\* the success line, then the loop's next iteration or its end
DumpSuccess ==
    /\ pc = "success"
    /\ out' = Append(out, "Success!")
    /\ reported' = reported \cup {DumpDestFile}
    /\ IF idx < Len(snapshots)
       THEN idx' = idx + 1 /\ pc' = "query" /\ UNCHANGED status
       ELSE pc' = "exit" /\ status' = "ok" /\ UNCHANGED idx
    /\ UNCHANGED <<config, snapshots, locals, files, procs, stdout, engineArgs>>

Next ==
    \/ cli
    \/ cli_run
    \/ cli_decrypt
    \/ cli_list
    \/ cli_dump
    \/ DumpQuery
    \/ DumpCollision
    \/ DumpStats
    \/ DumpSpace
    \/ DumpPipe
    \/ DumpRelocate
    \/ DumpSuccess

Spec == Init /\ [][Next]_vars

(***************************************************************************)
(* Vocabulary of the properties.                                           *)
(***************************************************************************)
LastOut == IF out = <<>> THEN "" ELSE out[Len(out)]
Printed(msg) == \E k \in 1..Len(out) : out[k] = msg
AlreadyExists == {"Archive already exists", "Final archive already exists"}
Exists(q) == files[q] # "absent"
SnapshotQuery(i) == Proc("restic snapshots", i, "none", "capture")
\* subprocesses started by the step being taken
Started == SubSeq(procs', Len(procs) + 1, Len(procs'))
StartedFor(c, i) == \E k \in 1..Len(procs) : procs[k].cmd = c /\ procs[k].snap = i
NonZeroExit == status \in {"fatal", "crash"}
\* the engine's answer to a snapshot query names a snapshot
Matches(resp) == ~resp.null /\ resp.list # <<>>

\* what a POSIX shell makes of a command line: words split at blanks, single and
\* double quotes removed
ShellWords(line) ==
    LET RECURSIVE w(_, _, _, _, _)
        w(i, word, inWord, quote, acc) ==
            IF i > Len(line) THEN (IF inWord THEN Append(acc, word) ELSE acc)
            ELSE IF quote # ""
            THEN (IF line[i] = quote
                  THEN w(i + 1, word, TRUE, "", acc)
                  ELSE w(i + 1, Append(word, line[i]), TRUE, quote, acc))
            ELSE IF line[i] = " "
            THEN (IF inWord THEN w(i + 1, <<>>, FALSE, "", Append(acc, word))
                  ELSE w(i + 1, <<>>, FALSE, "", acc))
            ELSE IF line[i] \in {"'", "\""}
            THEN w(i + 1, word, TRUE, line[i], acc)
            ELSE w(i + 1, Append(word, line[i]), TRUE, "", acc)
    IN w(1, <<>>, FALSE, "", <<>>)

(***************************************************************************)
(* C1. As claimed: a dump of one snapshot whose derived archive name is    *)
(* already present in the destination directory ends with a non-zero       *)
(* status and an "already exists" message, and has started no subprocess   *)
(* at all.                                                                 *)
(***************************************************************************)
C1_DestCollision ==
    /\ cmd = "dump"
    /\ Len(snapshots) = 1
    /\ latest # NoSnapshot
    /\ files[DumpDestFile] = "old"

C1_NoSubprocessAtAll ==
    C1_DestCollision /\ pc = "exit"
        => status = "fatal" /\ LastOut \in AlreadyExists /\ procs = <<>>

(***************************************************************************)
(* C1, amended. In that case the invocation ends with a non-zero status    *)
(* and an "already exists" message, and the only subprocess it has started *)
(* at any point is the snapshot query that the file name is derived from:  *)
(* no stats query, no pipeline stage, no copy.                             *)
(***************************************************************************)
C1_OnlyTheSnapshotQuery ==
    C1_DestCollision
        => /\ procs = <<SnapshotQuery(1)>>
           /\ \/ pc = "collision" /\ status = "running"
              \/ pc = "exit" /\ status = "fatal" /\ LastOut \in AlreadyExists

C1_Witness ==
    /\ C1_DestCollision
    /\ pc = "exit"
    /\ DumpCacheDir # DumpDestDir
    /\ LastOut = "Final archive already exists"

(***************************************************************************)
(* C2. The four-stage pipe of a snapshot is started only from a state in   *)
(* which neither the cache path nor the destination path of the derived    *)
(* name exists, and they have not existed since they were checked; a       *)
(* collision check that finds either path ends the invocation fatally and  *)
(* changes no file; no file that was on disk before the invocation is ever *)
(* written, truncated or deleted.                                          *)
(***************************************************************************)
C2_NoOverwrite ==
    /\ [](pc \in {"stats", "space", "pipe"}
            => ~Exists(DumpCacheFile) /\ ~Exists(DumpDestFile))
    /\ [][/\ StartedFor("restic dump", idx)' /\ ~StartedFor("restic dump", idx)
               => pc = "pipe" /\ ~Exists(DumpCacheFile) /\ ~Exists(DumpDestFile)
          /\ pc = "collision" /\ (Exists(DumpCacheFile) \/ Exists(DumpDestFile))
               => pc' = "exit" /\ status' = "fatal" /\ files' = files
                  /\ LastOut' \in AlreadyExists /\ procs' = procs
          /\ \A q \in DOMAIN files : files[q] = "old" => files'[q] = "old"
          /\ pc = "exit" => files' = files]_vars

\* the second of two names resolved to the snapshot the first one dumped
C2_Witness ==
    /\ idx = 2
    /\ pc = "exit"
    /\ status = "fatal"
    /\ LastOut \in AlreadyExists
    /\ files[DumpDestFile] = "full"
    /\ StartedFor("restic dump", 1)
    /\ ~StartedFor("restic dump", 2)

(***************************************************************************)
(* C3. Snapshots are processed one after the other in the given order:     *)
(* every subprocess started belongs to the snapshot at the current index,  *)
(* the index only ever moves to the next one, and only from the success    *)
(* line of the current one. Each fatal condition (snapshot not found, file *)
(* collision, insufficient space, non-zero pipeline exit, non-zero copy    *)
(* exit) ends the process with a non-zero status in the step that meets    *)
(* it, and an ended process takes no further step.                         *)
(***************************************************************************)
C3_SequentialAbort ==
    /\ [](status # "running" <=> pc = "exit")
    /\ [](\A k \in 1..Len(procs) : procs[k].snap <= idx
             /\ (k > 1 => procs[k - 1].snap <= procs[k].snap))
    /\ [][/\ pc # "exit"
          /\ SubSeq(procs', 1, Len(procs)) = procs
          /\ \A k \in 1..Len(Started) : Started[k].snap = idx
          /\ cmd = "dump" /\ idx >= 1
               => /\ idx' \in {idx, idx + 1}
                  /\ idx' = idx + 1 => pc = "success" /\ status' = "running"
                  /\ snapshots' = snapshots
          /\ pc = "query" /\ ~Matches(snapsOut') => NonZeroExit'
          /\ pc = "collision" /\ (Exists(DumpCacheFile) \/ Exists(DumpDestFile))
               => NonZeroExit'
          /\ pc = "space" /\ DumpCacheDir \in dirs
               /\ (cacheFree' < latestSize \/ destFree' < latestSize)
               => NonZeroExit'
          /\ pc = "pipe" /\ dumpExit' # 0 => NonZeroExit'
          /\ pc = "relocate" /\ copyExit' # 0 => NonZeroExit'
          /\ NonZeroExit' => pc' = "exit" /\ idx' = idx]_vars

\* the first of two snapshots failed in its pipeline: nothing ran for the second
C3_Witness ==
    /\ Len(snapshots) = 2
    /\ idx = 1
    /\ status = "fatal"
    /\ dumpExit # 0
    /\ StartedFor("restic dump", 1)
    /\ \A k \in 1..Len(procs) : procs[k].snap = 1

(***************************************************************************)
(* C4. `run` without --go never starts the engine: it prints the shell-    *)
(* quoted argument list and nothing else runs. `run` starts the engine     *)
(* exactly when --go is given and the profile is defined, once, in the     *)
(* foreground, and with the argument list a shell reads back from the line *)
(* the dry run prints.                                                     *)
(***************************************************************************)
C4_DryRunNeverExecutes ==
    cmd = "run"
        => /\ ~go => procs = <<>> /\ engineArgs = <<>>
           /\ procs # <<>>
                => /\ go /\ profile \in profiles
                   /\ procs = <<Proc("restic backup", 0, "tty", "tty")>>
                   /\ engineArgs = RunArgs(profile)
                   /\ engineArgs = ShellWords(ShlexJoin(RunArgs(profile)))
                   /\ stdout = <<>>
           /\ pc = "exit" /\ profile \in profiles
                => IF go
                   THEN procs # <<>>
                   ELSE /\ stdout = ShlexJoin(RunArgs(profile))
                        /\ ShellWords(stdout) = RunArgs(profile)
                        /\ status = "ok"
           /\ pc = "exit" /\ profile \notin profiles
                => procs = <<>> /\ stdout = <<>> /\ status = "fatal"

C4_Witness ==
    /\ cmd = "run"
    /\ pc = "exit"
    /\ ~go
    /\ stdout # <<>>
    /\ Contains(stdout, <<"'", "a", " ", "b", "'">>)

C6_DecryptGuard ==
    cmd = "decrypt" /\ profiles # {}
        => /\ ttyOut => procs = <<>>
           /\ pc \in {"cli", "decrypt"} => procs = <<>>
           /\ pc = "exit"
                => IF ttyOut
                   THEN status = "fatal" /\ LastOut = "Stdout is a TTY"
                   ELSE /\ status = "ok"
                        /\ procs = << Proc("openssl -d", 0, "file_input", "pipe"),
                                      Proc("zstd -dc", 0, "pipe", "file_output") >>

C6_Witness ==
    /\ cmd = "decrypt"
    /\ pc = "exit"
    /\ ~ttyOut
    /\ Len(procs) = 2

(***************************************************************************)
(* C7. A file disappears from disk only in the relocation step, only the   *)
(* cached archive, and only with the copy's exit code 0. A copy that       *)
(* returns non-zero ends the invocation fatally with the cached archive    *)
(* still on disk. A pipeline whose last stage returns non-zero ends the    *)
(* invocation fatally with no copy started and the partial output left in  *)
(* place.                                                                  *)
(***************************************************************************)
C7_DeleteOnlyAfterCopy ==
    [][/\ \A q \in DOMAIN files :
            Exists(q) /\ files'[q] = "absent"
                => pc = "relocate" /\ copyExit' = 0 /\ q = DumpCacheFile
       /\ pc = "relocate" /\ copyExit' # 0
            => /\ pc' = "exit" /\ status' = "fatal"
               /\ LastOut' = "Copy command returned with error code"
               /\ files'[DumpCacheFile] # "absent"
       /\ pc = "pipe" /\ dumpExit' # 0
            => /\ pc' = "exit" /\ status' = "fatal"
               /\ LastOut' = "Dump command returned with error code"
               /\ files'[DumpCacheFile] = "partial"
               /\ ~StartedFor("pv copy", idx)'
       /\ pc = "exit" => files' = files /\ procs' = procs]_vars

C7_Witness ==
    /\ pc = "exit"
    /\ status = "fatal"
    /\ copyExit # 0
    /\ StartedFor("pv copy", idx)
    /\ DumpCacheDir # DumpDestDir
    /\ files[DumpCacheFile] = "full"

(***************************************************************************)
(* C8. After a snapshot query: if the engine reported no matching snapshot *)
(* (JSON null, or an empty list) the invocation has ended with the fatal   *)
(* "could not find snapshot" error of the presentation layer and nothing   *)
(* else was done for that snapshot; if the engine returned a matching      *)
(* snapshot, it is not reported as not found.                              *)
(***************************************************************************)
C8_NotFoundIffNoMatch ==
    procs # <<>> /\ procs[Len(procs)].cmd = "restic snapshots"
        => IF Matches(snapsOut)
           THEN ~Printed("Could not find snapshot")
           ELSE /\ pc = "exit"
                /\ status = "fatal"
                /\ LastOut = "Could not find snapshot"

(***************************************************************************)
(* C9. The four-stage pipe of a snapshot is started only if the free space *)
(* reported for the cache directory and for the destination directory were *)
(* both at least the reported total size; a space check that finds either  *)
(* smaller ends the invocation fatally, with no archive file of that       *)
(* snapshot on disk. The size query starts only after the collision check  *)
(* passed, the space check follows the size query, and the pipe follows    *)
(* the space check.                                                        *)
(***************************************************************************)
C9_SpacePreflight ==
    /\ [](pc \in {"pipe", "relocate", "success"} \/ StartedFor("restic dump", idx)
            => cacheFree >= latestSize /\ destFree >= latestSize)
    /\ [][/\ pc = "space" /\ DumpCacheDir \in dirs
               /\ (cacheFree' < latestSize \/ destFree' < latestSize)
               => /\ pc' = "exit" /\ status' = "fatal"
                  /\ files' = files /\ procs' = procs
                  /\ ~Exists(DumpCacheFile) /\ ~Exists(DumpDestFile)
          /\ pc' = "stats" => pc = "collision" /\ procs' = procs
          /\ pc' = "space"
               => pc = "stats" /\ Started = <<Proc("restic stats", idx, "none", "capture")>>
          /\ pc' = "pipe" => pc = "space" /\ procs' = procs
          /\ StartedFor("restic dump", idx)' /\ ~StartedFor("restic dump", idx)
               => pc = "pipe" /\ StartedFor("restic stats", idx)
          /\ StartedFor("restic stats", idx)' /\ ~StartedFor("restic stats", idx)
               => pc = "stats" /\ ~Exists(DumpCacheFile) /\ ~Exists(DumpDestFile)]_vars

C9_Witness ==
    /\ pc = "exit"
    /\ status = "fatal"
    /\ LastOut = "Dump archive needs more space in destination"
    /\ cacheFree >= latestSize
    /\ destFree < latestSize
    /\ ~Exists(DumpDestFile)

(***************************************************************************)
(* C10. Every path announced in a success line holds an archive file, for  *)
(* every configuration of the dump cache.                                  *)
(***************************************************************************)
C10_ReportedArchiveExists ==
    \A q \in reported : Exists(q)

====
